---- MODULE Spec2Model ----
(***************************************************************************)
(* A model of the JSON-RPC 2.0 message router (reference_server/           *)
(* message_router.py) and of the chat handler it serves                    *)
(* (reference_server/chat_handler.py).                                     *)
(*                                                                         *)
(* Every action is the code between two suspension points (awaits) of one  *)
(* route_message call: it performs the await the call is parked on (the    *)
(* envelope is handed to send_response / send_notification, which returns  *)
(* or raises) and runs the code that follows up to the next await.         *)
(***************************************************************************)
EXTENDS Integers, Sequences, FiniteSets, TLC

VARIABLES
    handlers,             \* MessageRouter.handlers: method name -> unary handler
    streaming_handlers,   \* MessageRouter.streaming_handlers: method name -> streaming handler
    regHist,              \* history: per name, the handlers registered for it, in order
    pc,                   \* per connection: the await the route_message call is parked on
    req,                  \* per connection: the decoded inbound message being routed
    pend,                 \* per connection: the envelope built for the pending send
    out,                  \* per connection: what this route call handed to the transport, in order
    calls,                \* per connection: the handlers this route call invoked, in order
    prod,                 \* per connection: what the streaming handler did so far, in order:
                          \* the items it produced, then how it ended ("end" or "raise")
    sessions,             \* ChatHandler.sessions: conversation id -> ChatSession object
    heap,                 \* the ChatSession objects created so far, by object number
    current_conversation_id, \* ChatHandler.current_conversation_id
    sdk_available,        \* ChatHandler.sdk_available
    now,                  \* the clock datetime.utcnow() reads, in seconds
    ticks,                \* how often the clock advanced
    raises,               \* per connection: the classes of the exceptions its handlers,
                          \* its upstream and its sends raise
    orphans,              \* suspended handle_send generators the async for left behind
    frame                 \* per connection: the locals of the running handle_send

vars == <<handlers, streaming_handlers, regHist, pc, req, pend, out, calls, prod,
          sessions, heap, current_conversation_id, sdk_available, now, ticks, raises,
          orphans, frame>>

routerRegs == <<handlers, streaming_handlers, regHist, raises>>
routerConn == <<pc, req, pend, out, calls, prod>>
chatStore == <<sessions, heap, current_conversation_id, sdk_available, now, ticks>>
chatVars == <<sessions, heap, current_conversation_id, sdk_available, now, ticks, orphans, frame>>

----------------------------------------------------------------------------
(* Bounds of the model *)

\* items (yields and notifier calls) one generic streaming handler produces per call
MaxItems == 2
\* register_handler / register_streaming_handler calls per method name
MaxRegs == 2
\* upstream events one conversation exchange receives
MaxEvents == 2
\* turns a session history holds when an exchange starts
MaxTurns == 2
\* ChatSession objects ever created
MaxObjs == 2
\* advances of the clock
MaxTicks == 2

----------------------------------------------------------------------------
(* JsonRpcErrorCode *)

PARSE_ERROR == -32700
INVALID_REQUEST == -32600
METHOD_NOT_FOUND == -32601
INVALID_PARAMS == -32602
INTERNAL_ERROR == -32603
SDK_UNAVAILABLE == -32001

----------------------------------------------------------------------------
(* Values *)

\* Python's None: an absent id, an absent method, an absent handler
None == "None"

Conns == {"c1", "c2"}

\* method names a message can carry; "foo" is never registered
Registrable == {"op"}
Methods == Registrable \cup {"foo"}

\* generic handlers: coroutine functions and async generator functions
UnaryFns == {"u1", "u2"}
StreamFns == {"s1", "s2"}

\* correlation ids of inbound requests
Ids == {"1"}

\* the exception classes the except clauses of the router tell apart
ExcKinds == {"TypeError", "ValueError", "RuntimeError", "Exception"}

\* inbound raw messages, by what json.loads and the field reads give:
\*   form    "badjson" (json.loads raises), "nonobject" (a scalar or an array), "object"
\*   version whether data.get('jsonrpc') == '2.0'
\*   method  data.get('method'); None stands for a missing or empty (falsy) method
\*   id      data.get('id'); None for a message without id
\*   params  what params.get('message', '') gives, a string (a sequence of
\*           characters); the router itself never looks into params
ObjectMessages ==
    [form : {"object"}, version : BOOLEAN, method : Methods \cup {None},
     id : Ids \cup {None}, params : {<<>>}]

Messages ==
    ObjectMessages
    \cup [form : {"badjson", "nonobject"}, version : {FALSE}, method : {None},
          id : {None}, params : {<<>>}]

NoReq == [form |-> "none", version |-> FALSE, method |-> None, id |-> None, params |-> <<>>]

\* the chat methods and the message texts a chat.send request carries
MessageTexts == {<<" ">>, <<"h", " ">>}

ChatMessages ==
    [form : {"object"}, version : {TRUE}, method : {"chat.send"},
     id : Ids, params : MessageTexts]
    \cup [form : {"object"}, version : {TRUE}, method : {"chat.cancel", "chat.status"},
          id : Ids, params : {<<>>}]

\* conversation ids uuid.uuid4() can give
ConvIds == {"k1", "k2"}

\* the text units the upstream streams, in the order it streams them
TextUnits == <<"a", "b", "c", "d", "e">>

----------------------------------------------------------------------------
(* Envelopes *)

\* the payload of an envelope (a result, or the params of a notification):
\*   tag  the status of a chat.send result, or the method of a notification
\*   cost in millionths of a dollar
\*   type the Python type of the payload: "dict", "dataclass" (an instance of a
\*        dataclass), or "set" (a value json.dumps has no encoding for)
\* a generic handler's payload is opaque: NoBody
NoBody ==
    [tag |-> "", conversation_id |-> None, cost |-> 0, content |-> <<>>,
     input_tokens |-> 0, output_tokens |-> 0, total_tokens |-> 0, flag |-> FALSE,
     type |-> "dict"]

\* a response built without the jsonrpc member
create_json_rpc_response_without_version(result, request_id) ==
    [jsonrpc |-> None, kind |-> "result", code |-> 0, id |-> request_id, k |-> 0,
     body |-> result]

\* create_json_rpc_response; k is the number of the handler item an envelope
\* comes from, 0 for an envelope the router builds itself
create_json_rpc_response(result, request_id) ==
    [jsonrpc |-> "2.0", kind |-> "result", code |-> 0, id |-> request_id, k |-> 0,
     body |-> result]

\* an error reply that leaves the request id out
create_json_rpc_error_without_id(code, request_id) ==
    [jsonrpc |-> "2.0", kind |-> "error", code |-> code, id |-> None, k |-> 0,
     body |-> NoBody]

create_json_rpc_error(code, request_id) ==
    [jsonrpc |-> "2.0", kind |-> "error", code |-> code, id |-> request_id, k |-> 0,
     body |-> NoBody]

create_json_rpc_notification(params, k) ==
    [jsonrpc |-> "2.0", kind |-> "notification", code |-> 0, id |-> None, k |-> k,
     body |-> params]

NoEnvelope ==
    [jsonrpc |-> None, kind |-> "none", code |-> 0, id |-> None, k |-> 0, body |-> NoBody]

\* one call of a send function: which one, and the envelope handed to it
Handed(via, env) == [via |-> via, env |-> env]

\* except clauses without one for RuntimeError
ExceptCodeWithoutRuntime(kind) ==
    CASE kind = "TypeError" -> INVALID_PARAMS
      [] kind = "ValueError" -> INVALID_PARAMS
      [] OTHER -> INTERNAL_ERROR

\* the except clauses of _handle_regular and _handle_streaming: exception class -> code
ExceptCode(kind) ==
    CASE kind = "TypeError" -> INVALID_PARAMS
      [] kind = "ValueError" -> INVALID_PARAMS
      [] kind = "RuntimeError" -> SDK_UNAVAILABLE
      [] OTHER -> INTERNAL_ERROR

----------------------------------------------------------------------------
(* MessageRouter: the registries *)

\* d.setdefault(method, handler): a name that is registered keeps its handler
DictSetDefault(d, method, handler) ==
    IF d[method] # None THEN d ELSE [d EXCEPT ![method] = handler]

\* self.handlers[method] = handler / self.streaming_handlers[method] = handler
DictSet(d, method, handler) == [d EXCEPT ![method] = handler]

\* MessageRouter.register_handler
register_handler(method, handler) ==
    /\ handlers' = DictSet(handlers, method, handler)
    /\ UNCHANGED <<streaming_handlers, raises>>

\* MessageRouter.register_streaming_handler
register_streaming_handler(method, handler) ==
    /\ streaming_handlers' = DictSet(streaming_handlers, method, handler)
    /\ UNCHANGED <<handlers, raises>>

RegisterHandler(method, handler) ==
    /\ Len(regHist[method]) < MaxRegs
    /\ register_handler(method, handler)
    /\ regHist' = [regHist EXCEPT ![method] = Append(@, handler)]
    /\ UNCHANGED <<routerConn, chatVars>>

RegisterStreamingHandler(method, handler) ==
    /\ Len(regHist[method]) < MaxRegs
    /\ register_streaming_handler(method, handler)
    /\ regHist' = [regHist EXCEPT ![method] = Append(@, handler)]
    /\ UNCHANGED <<routerConn, chatVars>>

\* "method in self.streaming_handlers" / "method in self.handlers"
InDict(d, method) == method \in DOMAIN d /\ d[method] # None

\* a lookup that tries the unary registry first
ResolveUnaryFirst(method) ==
    IF InDict(handlers, method)
    THEN [kind |-> "regular", handler |-> handlers[method]]
    ELSE IF InDict(streaming_handlers, method)
         THEN [kind |-> "streaming", handler |-> streaming_handlers[method]]
         ELSE [kind |-> "none", handler |-> None]

\* route_message, lines 176-204: the streaming registry is looked up first,
\* then the unary one
Resolve(method) ==
    IF InDict(streaming_handlers, method)
    THEN [kind |-> "streaming", handler |-> streaming_handlers[method]]
    ELSE IF InDict(handlers, method)
         THEN [kind |-> "regular", handler |-> handlers[method]]
         ELSE [kind |-> "none", handler |-> None]

----------------------------------------------------------------------------
(* MessageRouter: helpers of route_message, _handle_regular, _handle_streaming *)

\* is_notification = request_id is None
IsNotification(m) == m.id = None

\* a validation that never reads the id of the message
DecodeWithoutId(m) ==
    IF m.form = "badjson"
    THEN [at |-> "send_135", env |-> create_json_rpc_error(PARSE_ERROR, None)]
    ELSE IF m.form = "nonobject"
    THEN [at |-> "send_145", env |-> create_json_rpc_error(INVALID_REQUEST, None)]
    ELSE IF ~m.version
    THEN [at |-> "send_155", env |-> create_json_rpc_error(INVALID_REQUEST, None)]
    ELSE IF m.method = None
    THEN [at |-> "send_165", env |-> create_json_rpc_error(INVALID_REQUEST, None)]
    ELSE [at |-> "ok", env |-> NoEnvelope]

\* a validation that takes a value that is no object for a parse error
DecodeNonObjectAsParseError(m) ==
    IF m.form \in {"badjson", "nonobject"}
    THEN [at |-> IF m.form = "badjson" THEN "send_135" ELSE "send_145",
          env |-> create_json_rpc_error(PARSE_ERROR, None)]
    ELSE IF ~m.version
    THEN [at |-> "send_155", env |-> create_json_rpc_error(INVALID_REQUEST, m.id)]
    ELSE IF m.method = None
    THEN [at |-> "send_165", env |-> create_json_rpc_error(INVALID_REQUEST, m.id)]
    ELSE [at |-> "ok", env |-> NoEnvelope]

\* lines 126-166: the reply to a message that fails decoding or validation,
\* and the await it is sent at; "ok" for a message that passes
Decode(m) ==
    IF m.form = "badjson"
    THEN [at |-> "send_135", env |-> create_json_rpc_error(PARSE_ERROR, None)]
    ELSE IF m.form = "nonobject"
    THEN [at |-> "send_145", env |-> create_json_rpc_error(INVALID_REQUEST, None)]
    ELSE IF ~m.version
    THEN [at |-> "send_155", env |-> create_json_rpc_error(INVALID_REQUEST, m.id)]
    ELSE IF m.method = None
    THEN [at |-> "send_165", env |-> create_json_rpc_error(INVALID_REQUEST, m.id)]
    ELSE [at |-> "ok", env |-> NoEnvelope]

\* an outer recovery that calls the handler again
OuterExceptRetries(m) == [at |-> "await_231", env |-> NoEnvelope]

\* lines 206-216: the outer except clause. It reads data.get('id') when data is
\* bound; data bound to a scalar or an array has no get, and the AttributeError
\* leaves route_message
OuterExcept(m) ==
    IF m.form = "nonobject"
    THEN [at |-> "raised", env |-> NoEnvelope]
    ELSE [at |-> "send_214",
          env |-> create_json_rpc_error(INTERNAL_ERROR,
                                        IF m.form = "badjson" THEN None ELSE m.id)]

\* the program point and pending envelope of connection c become those of nxt
Goto(c, nxt) ==
    /\ pc' = [pc EXCEPT ![c] = nxt.at]
    /\ pend' = [pend EXCEPT ![c] = nxt.env]

Return == [at |-> "returned", env |-> NoEnvelope]

At(label) == [at |-> label, env |-> NoEnvelope]

\* a notification that is scheduled (create_task) instead of awaited is not
\* handed to the transport by the time the call returns
HandUnawaited(log, via, env) ==
    IF via = "send_notification" THEN log ELSE Append(log, Handed(via, env))

\* the transport log after one call of a send function
Hand(log, via, env) == Append(log, Handed(via, env))

\* one await of send_response(pend) or send_notification(pend): the envelope is
\* handed over; the send then returns ("ok") or raises an exception of some class
Await(c, via) == out' = [out EXCEPT ![c] = Hand(@, via, pend[c])]

SendOutcomes(c) == {"ok"} \cup raises[c]

\* lines 245-279 and 311-345: the clause that catches an exception of class kind
\* builds the error reply and awaits its send
Except(at, kind, request_id) ==
    [at |-> at, env |-> create_json_rpc_error(ExceptCode(kind), request_id)]

\* MessageRouter._serialize_dataclass: an instance of a dataclass becomes the
\* dict of its fields (asdict), any other value is returned as it is
serialize_dataclass(obj) ==
    IF obj.type = "dataclass" THEN [obj EXCEPT !.type = "dict"] ELSE obj

\* json.dumps(envelope) raises TypeError unless the payload is made of dicts,
\* lists, strings, numbers, booleans and None
JsonSerializable(env) == env.body.type = "dict"

\* a router that answers a notification like a request
AfterHandlerAlwaysResponds(m, result) ==
    [at |-> "send_243",
     env |-> create_json_rpc_response(serialize_dataclass(result), m.id)]

\* lines 233-243: what follows the return of the unary handler with result
AfterHandler(m, result) ==
    IF IsNotification(m)
    THEN Return
    ELSE [at |-> "send_243",
          env |-> create_json_rpc_response(serialize_dataclass(result), m.id)]

\* a chunk a streaming handler yields: the key that tells its kind ('result',
\* 'error', or neither) and its payload
Chunk(key, body) == [key |-> key, body |-> body]

\* lines 301-309: what the loop body does with a yielded chunk, item k of the
\* handler: a chunk with 'result' or 'error' gets the request id (when there is
\* one) and goes to send_response, any other chunk goes to send_notification.
\* The chunk is sent as the handler built it: the router adds no 'jsonrpc'
\* member, and the chunks of the handlers here carry none
OnChunk(chunk, request_id, k) ==
    IF chunk.key \in {"result", "error"}
    THEN [at |-> "send_306",
          env |-> [jsonrpc |-> None, kind |-> chunk.key, code |-> 0, id |-> request_id,
                   k |-> k, body |-> chunk.body]]
    ELSE [at |-> "send_309",
          env |-> [jsonrpc |-> None, kind |-> "notification", code |-> 0, id |-> None,
                   k |-> k, body |-> chunk.body]]

\* lines 294-296: the notifier the handler is given builds the notification
\* and awaits send_notification; at names the call site
send_handler_notification(at, params, k) ==
    [at |-> at, env |-> create_json_rpc_notification(params, k)]

\* what the handler has produced once it produced one more item
Produce(c, item) == prod' = [prod EXCEPT ![c] = Append(@, item)]

\* the number of the item the handler produces next
NextItem(c) == Len(prod[c]) + 1

\* the handler the route call of connection c invoked
Handler(c) == IF calls[c] = <<>> THEN None ELSE calls[c][1]

----------------------------------------------------------------------------
(* ChatHandler *)

SecondsPerHour == 3600

\* the locals of one handle_send call; appended and cancelSeen are history:
\* whether this call appended its assistant turn, and whether chat.cancel was
\* invoked on its session while it was sending
NoFrame ==
    [conversation_id |-> None, session |-> 0, text |-> <<>>,
     input_tokens |-> 0, output_tokens |-> 0, events |-> 0, exc |-> None,
     appended |-> FALSE, cancelSeen |-> FALSE]

\* ChatSession.__init__
ChatSession(conversation_id, created_at) ==
    [conversation_id |-> conversation_id, messages |-> <<>>,
     is_active |-> FALSE, created_at |-> created_at]

Turn(role, content) == [role |-> role, content |-> content]

\* str.strip(): leading and trailing blanks removed
RECURSIVE LStrip(_)
LStrip(t) == IF t # <<>> /\ Head(t) = " " THEN LStrip(Tail(t)) ELSE t

RECURSIVE RStrip(_)
RStrip(t) ==
    IF t # <<>> /\ t[Len(t)] = " " THEN RStrip(SubSeq(t, 1, Len(t) - 1)) ELSE t

\* a text taken as it comes, blanks included
NoStrip(t) == t

Strip(t) == RStrip(LStrip(t))

\* a lookup that finds no session
InStoreNever(cid) == FALSE

\* "conversation_id in self.sessions"
InStore(cid) == sessions[cid] # 0

\* the ChatSession object stored for a conversation id
SessionOf(cid) == heap[sessions[cid]]

\* ChatHandler.handle_status
handle_status ==
    [NoBody EXCEPT !.tag = "status", !.flag = sdk_available, !.type = "dataclass"]

\* ChatHandler.handle_cancel, lines 273-287: the result
CancelResult ==
    IF current_conversation_id = None
    THEN [NoBody EXCEPT !.tag = "cancel", !.flag = FALSE, !.type = "dataclass"]
    ELSE [NoBody EXCEPT !.tag = "cancel", !.flag = TRUE, !.type = "dataclass",
                        !.conversation_id = current_conversation_id]

\* a cancel that leaves the session objects as they are
CancelHeapUntouched == heap

\* ChatHandler.handle_cancel, lines 279-282: the session objects after the call
CancelHeap ==
    IF current_conversation_id # None /\ InStore(current_conversation_id)
    THEN [heap EXCEPT ![sessions[current_conversation_id]].is_active = FALSE]
    ELSE heap

\* the connections whose handle_send is between its entry and its terminal
\* outcome (the exchange is Sending)
Sending(c) == pc[c] \in {"create_158", "event_169", "chunk_183", "usage_219"}

\* chat.cancel is invoked: it is recorded with every exchange that is sending
\* on the tracked session while that session's flag is true
NoteCancel ==
    [c \in Conns |->
        IF /\ Sending(c)
           /\ current_conversation_id # None
           /\ InStore(current_conversation_id)
           /\ frame[c].session = sessions[current_conversation_id]
           /\ heap[frame[c].session].is_active
        THEN [frame[c] EXCEPT !.cancelSeen = TRUE]
        ELSE frame[c]]

\* the locals of a handle_send call that ended: its working values are gone
Ended(f) ==
    [NoFrame EXCEPT !.conversation_id = f.conversation_id, !.session = f.session,
                    !.appended = f.appended, !.cancelSeen = f.cancelSeen]

\* a handle_send without its finally clause
FinallySkipped(h, obj) == h

\* the finally clause of handle_send, line 266
Finally(h, obj) == [h EXCEPT ![obj].is_active = FALSE]

\* the total cost of lines 212-216, in millionths of a dollar:
\* 3 dollars per million input tokens, 15 per million output tokens
TotalCost(input_tokens, output_tokens) == 3 * input_tokens + 15 * output_tokens

\* a result that reports no cost
SendResultWithoutCost(conversation_id, status, cost) ==
    [NoBody EXCEPT !.tag = status, !.conversation_id = conversation_id]

\* the result handle_send yields, lines 232-239 and 244-251
SendResult(conversation_id, status, cost) ==
    [NoBody EXCEPT !.tag = status, !.conversation_id = conversation_id, !.cost = cost]

\* chunk params that leave out the conversation id
ChunkParamsWithoutId(conversation_id, chunk) ==
    [NoBody EXCEPT !.tag = "chat.response.chunk", !.content = chunk]

\* the params of the three notifications of handle_send
ChunkParams(conversation_id, chunk) ==
    [NoBody EXCEPT !.tag = "chat.response.chunk",
                   !.conversation_id = conversation_id, !.content = chunk]

UsageParams(conversation_id, input_tokens, output_tokens) ==
    [NoBody EXCEPT !.tag = "chat.usage", !.conversation_id = conversation_id,
                   !.input_tokens = input_tokens, !.output_tokens = output_tokens,
                   !.total_tokens = input_tokens + output_tokens,
                   !.cost = TotalCost(input_tokens, output_tokens)]

ErrorParams == [NoBody EXCEPT !.tag = "chat.error"]

\* an entry that tests the SDK before it looks at the message
SendEntrySdkFirst(c, m) ==
    IF ~sdk_available
    THEN /\ Goto(c, Except("send_streaming_except", "RuntimeError", m.id))
         /\ prod' = [prod EXCEPT ![c] = <<"raise">>]
         /\ frame' = [frame EXCEPT ![c] = NoFrame]
         /\ UNCHANGED <<sessions, heap, current_conversation_id>>
    ELSE IF Strip(m.params) = <<>>
    THEN /\ Goto(c, Except("send_streaming_except", "ValueError", m.id))
         /\ prod' = [prod EXCEPT ![c] = <<"raise">>]
         /\ frame' = [frame EXCEPT ![c] = NoFrame]
         /\ UNCHANGED <<sessions, heap, current_conversation_id>>
    ELSE \E uuid4 \in ConvIds :
        LET cid == IF current_conversation_id # None
                   THEN current_conversation_id ELSE uuid4
            fresh == ~InStore(cid)
            obj == IF fresh THEN Len(heap) + 1 ELSE sessions[cid]
            created == IF fresh THEN Append(heap, ChatSession(cid, now)) ELSE heap
        IN  /\ fresh => Len(heap) < MaxObjs
            /\ Len(created[obj].messages) < MaxTurns
            /\ current_conversation_id' = cid
            /\ sessions' = [sessions EXCEPT ![cid] = obj]
            /\ heap' = [created EXCEPT
                          ![obj].is_active = TRUE,
                          ![obj].messages = Append(@, Turn("user", Strip(m.params)))]
            /\ frame' = [frame EXCEPT ![c] =
                          [NoFrame EXCEPT !.conversation_id = cid, !.session = obj]]
            /\ prod' = [prod EXCEPT ![c] = <<>>]
            /\ Goto(c, At("create_158"))

\* an entry that takes a new conversation id for every exchange
SendEntryFreshId(c, m) ==
    IF Strip(m.params) = <<>>
    THEN /\ Goto(c, Except("send_streaming_except", "ValueError", m.id))
         /\ prod' = [prod EXCEPT ![c] = <<"raise">>]
         /\ frame' = [frame EXCEPT ![c] = NoFrame]
         /\ UNCHANGED <<sessions, heap, current_conversation_id>>
    ELSE IF ~sdk_available
    THEN /\ Goto(c, Except("send_streaming_except", "RuntimeError", m.id))
         /\ prod' = [prod EXCEPT ![c] = <<"raise">>]
         /\ frame' = [frame EXCEPT ![c] = NoFrame]
         /\ UNCHANGED <<sessions, heap, current_conversation_id>>
    ELSE \E cid \in ConvIds :
        LET fresh == ~InStore(cid)
            obj == IF fresh THEN Len(heap) + 1 ELSE sessions[cid]
            created == IF fresh THEN Append(heap, ChatSession(cid, now)) ELSE heap
        IN  /\ fresh => Len(heap) < MaxObjs
            /\ Len(created[obj].messages) < MaxTurns
            /\ current_conversation_id' = cid
            /\ sessions' = [sessions EXCEPT ![cid] = obj]
            /\ heap' = [created EXCEPT
                          ![obj].is_active = TRUE,
                          ![obj].messages = Append(@, Turn("user", Strip(m.params)))]
            /\ frame' = [frame EXCEPT ![c] =
                          [NoFrame EXCEPT !.conversation_id = cid, !.session = obj]]
            /\ prod' = [prod EXCEPT ![c] = <<>>]
            /\ Goto(c, At("create_158"))

\* handle_send, lines 123-158: from the call to the await of messages.create
SendEntry(c, m) ==
    IF Strip(m.params) = <<>>
    THEN /\ Goto(c, Except("send_streaming_except", "ValueError", m.id))
         /\ prod' = [prod EXCEPT ![c] = <<"raise">>]
         /\ frame' = [frame EXCEPT ![c] = NoFrame]
         /\ UNCHANGED <<sessions, heap, current_conversation_id>>
    ELSE IF ~sdk_available
    THEN /\ Goto(c, Except("send_streaming_except", "RuntimeError", m.id))
         /\ prod' = [prod EXCEPT ![c] = <<"raise">>]
         /\ frame' = [frame EXCEPT ![c] = NoFrame]
         /\ UNCHANGED <<sessions, heap, current_conversation_id>>
    ELSE \E uuid4 \in ConvIds :
        LET cid == IF current_conversation_id # None
                   THEN current_conversation_id ELSE uuid4
            fresh == ~InStore(cid)
            obj == IF fresh THEN Len(heap) + 1 ELSE sessions[cid]
            created == IF fresh THEN Append(heap, ChatSession(cid, now)) ELSE heap
        IN  /\ fresh => Len(heap) < MaxObjs
            /\ Len(created[obj].messages) < MaxTurns
            /\ current_conversation_id' = cid
            /\ sessions' = [sessions EXCEPT ![cid] = obj]
            /\ heap' = [created EXCEPT
                          ![obj].is_active = TRUE,
                          ![obj].messages = Append(@, Turn("user", Strip(m.params)))]
            /\ frame' = [frame EXCEPT ![c] =
                          [NoFrame EXCEPT !.conversation_id = cid, !.session = obj]]
            /\ prod' = [prod EXCEPT ![c] = <<>>]
            /\ Goto(c, At("create_158"))

----------------------------------------------------------------------------
(* MessageRouter.route_message *)

\* lines 176-204: the message is dispatched. The handler is called and runs to
\* its first suspension: a generic coroutine to its outcome at the await of
\* line 231, a generic async generator to the first __anext__ of line 299,
\* handle_status and handle_cancel (which never suspend) to their return,
\* handle_send to its first await
Invoke(c, m) ==
    LET t == Resolve(m.method) IN
    /\ calls' = [calls EXCEPT ![c] = IF t.kind = "none" THEN <<>> ELSE <<t.handler>>]
    /\ IF t.handler = "handle_send"
       THEN SendEntry(c, m)
       ELSE IF t.handler = "handle_cancel"
       THEN /\ prod' = [prod EXCEPT ![c] = <<>>]
            /\ heap' = CancelHeap
            /\ frame' = [NoteCancel EXCEPT ![c] = NoFrame]
            /\ Goto(c, AfterHandler(m, CancelResult))
            /\ UNCHANGED <<sessions, current_conversation_id>>
       ELSE /\ prod' = [prod EXCEPT ![c] = <<>>]
            /\ frame' = [frame EXCEPT ![c] = NoFrame]
            /\ Goto(c, IF t.handler = "handle_status"
                       THEN AfterHandler(m, handle_status)
                       ELSE IF t.kind = "streaming" THEN At("anext_299")
                       ELSE IF t.kind = "regular" THEN At("await_231")
                       ELSE [at |-> "send_204",
                             env |-> create_json_rpc_error(METHOD_NOT_FOUND, m.id)])
            /\ UNCHANGED <<sessions, heap, current_conversation_id>>

Parked(c) == pc[c] \in {"idle", "returned", "raised"}

\* route_message is called with raw message m: lines 124-204 up to the first await
Receive(c, m) ==
    /\ Parked(c)
    /\ req' = [req EXCEPT ![c] = m]
    /\ out' = [out EXCEPT ![c] = <<>>]
    /\ IF Decode(m).at # "ok"
       THEN /\ Goto(c, Decode(m))
            /\ calls' = [calls EXCEPT ![c] = <<>>]
            /\ prod' = [prod EXCEPT ![c] = <<>>]
            /\ UNCHANGED <<sessions, heap, current_conversation_id, frame>>
       ELSE Invoke(c, m)
    /\ UNCHANGED <<routerRegs, sdk_available, now, ticks, orphans>>

\* lines 135, 145, 155, 165: the reply to an undecodable or invalid message
SendDecodeError(c) ==
    /\ pc[c] \in {"send_135", "send_145", "send_155", "send_165"}
    /\ \E r \in SendOutcomes(c) :
        /\ Await(c, "send_response")
        /\ Goto(c, IF r = "ok" THEN Return ELSE OuterExcept(req[c]))
    /\ UNCHANGED <<routerRegs, req, calls, prod, chatVars>>

\* line 204: the reply to a method in neither registry
SendMethodNotFound(c) ==
    /\ pc[c] = "send_204"
    /\ \E r \in SendOutcomes(c) :
        /\ Await(c, "send_response")
        /\ Goto(c, IF r = "ok" THEN Return ELSE OuterExcept(req[c]))
    /\ UNCHANGED <<routerRegs, req, calls, prod, chatVars>>

\* line 214: the reply of the outer except clause; a failure of this send is logged
SendOuterError(c) ==
    /\ pc[c] = "send_214"
    /\ \E r \in SendOutcomes(c) :
        /\ Await(c, "send_response")
        /\ Goto(c, Return)
    /\ UNCHANGED <<routerRegs, req, calls, prod, chatVars>>

----------------------------------------------------------------------------
(* MessageRouter._handle_regular *)

\* the values a generic unary handler returns, by their Python type
PyReturns == {[NoBody EXCEPT !.type = t] : t \in {"dict", "dataclass", "set"}}

\* line 231: the await of the generic unary handler ends: it returns result
UnaryReturns(c, result) ==
    /\ pc[c] = "await_231"
    /\ Goto(c, AfterHandler(req[c], result))
    /\ UNCHANGED <<routerRegs, req, out, calls, prod, chatVars>>

\* line 231: the generic unary handler raises
UnaryRaises(c) ==
    /\ pc[c] = "await_231"
    /\ \E kind \in raises[c] :
        Goto(c, Except("send_regular_except", kind, req[c].id))
    /\ UNCHANGED <<routerRegs, req, out, calls, prod, chatVars>>

UnaryHandlerDone(c) ==
    \/ \E result \in PyReturns : UnaryReturns(c, result)
    \/ UnaryRaises(c)

\* line 243: the success response is encoded and sent; a TypeError of
\* json.dumps and a raising send are caught by the except clauses of the same try
SendUnaryResponse(c) ==
    /\ pc[c] = "send_243"
    /\ IF JsonSerializable(pend[c])
       THEN \E r \in SendOutcomes(c) :
               /\ Await(c, "send_response")
               /\ Goto(c, IF r = "ok"
                          THEN Return
                          ELSE Except("send_regular_except", r, req[c].id))
       ELSE /\ Goto(c, Except("send_regular_except", "TypeError", req[c].id))
            /\ UNCHANGED out
    /\ UNCHANGED <<routerRegs, req, calls, prod, chatVars>>

\* lines 252, 261, 270, 279: the error reply of an except clause is sent; a
\* raising send leaves _handle_regular for the outer except clause
SendRegularError(c) ==
    /\ pc[c] = "send_regular_except"
    /\ \E r \in SendOutcomes(c) :
        /\ Await(c, "send_response")
        /\ Goto(c, IF r = "ok" THEN Return ELSE OuterExcept(req[c]))
    /\ UNCHANGED <<routerRegs, req, calls, prod, chatVars>>

----------------------------------------------------------------------------
(* MessageRouter._handle_streaming *)

Generic(c) == Handler(c) \in StreamFns

\* line 299: the generic streaming handler is resumed and runs to its next
\* suspension: it yields a chunk, calls the notifier, raises, or ends
StreamYield(c) ==
    /\ pc[c] = "anext_299"
    /\ Generic(c)
    /\ Len(prod[c]) < MaxItems
    /\ \E key \in {"result", "error", "notification"} :
        /\ Produce(c, key)
        /\ Goto(c, OnChunk(Chunk(key, NoBody), req[c].id, NextItem(c)))
    /\ UNCHANGED <<routerRegs, req, out, calls, chatVars>>

StreamNotify(c) ==
    /\ pc[c] = "anext_299"
    /\ Generic(c)
    /\ Len(prod[c]) < MaxItems
    /\ Produce(c, "notification")
    /\ Goto(c, send_handler_notification("send_296", NoBody, NextItem(c)))
    /\ UNCHANGED <<routerRegs, req, out, calls, chatVars>>

StreamRaise(c) ==
    /\ pc[c] = "anext_299"
    /\ Generic(c)
    /\ \E kind \in raises[c] :
        Goto(c, Except("send_streaming_except", kind, req[c].id))
    /\ Produce(c, "raise")
    /\ UNCHANGED <<routerRegs, req, out, calls, chatVars>>

\* the handler ends: the async for is over and _handle_streaming returns
StreamEnd(c) ==
    /\ pc[c] = "anext_299"
    /\ Generic(c)
    /\ Goto(c, Return)
    /\ Produce(c, "end")
    /\ UNCHANGED <<routerRegs, req, out, calls, chatVars>>

\* an exception leaves the async for while the generator is suspended at a
\* yield: nothing closes the generator, its finally clause has not run, and
\* the event loop closes it (aclose) some time after the object is dropped
Abandoned(c) ==
    IF Handler(c) = "handle_send" THEN orphans \cup {frame[c].session} ELSE orphans

\* line 306: the terminal chunk is sent, then the handler is resumed; a raising
\* send is caught by the except clauses of _handle_streaming
SendStreamTerminal(c) ==
    /\ pc[c] = "send_306"
    /\ \E r \in SendOutcomes(c) :
        /\ Await(c, "send_response")
        /\ Goto(c, IF r = "ok"
                   THEN At("anext_299")
                   ELSE Except("send_streaming_except", r, req[c].id))
        /\ orphans' = IF r = "ok" THEN orphans ELSE Abandoned(c)
    /\ UNCHANGED <<routerRegs, req, calls, prod, chatStore, frame>>

\* line 309: a yielded notification is sent, then the handler is resumed
SendStreamNotification(c) ==
    /\ pc[c] = "send_309"
    /\ \E r \in SendOutcomes(c) :
        /\ Await(c, "send_notification")
        /\ Goto(c, IF r = "ok"
                   THEN At("anext_299")
                   ELSE Except("send_streaming_except", r, req[c].id))
    /\ UNCHANGED <<routerRegs, req, calls, prod, chatVars>>

\* line 296: the notifier's send; it returns or raises into the handler, which
\* goes on either way (a generic handler may catch the exception or let it go)
SendHandlerNotification(c) ==
    /\ pc[c] = "send_296"
    /\ \E r \in SendOutcomes(c) :
        /\ Await(c, "send_notification")
        /\ Goto(c, At("anext_299"))
    /\ UNCHANGED <<routerRegs, req, calls, prod, chatVars>>

\* lines 318, 327, 336, 345: the error reply of an except clause is sent
SendStreamingError(c) ==
    /\ pc[c] = "send_streaming_except"
    /\ \E r \in SendOutcomes(c) :
        /\ Await(c, "send_response")
        /\ Goto(c, IF r = "ok" THEN Return ELSE OuterExcept(req[c]))
    /\ UNCHANGED <<routerRegs, req, calls, prod, chatVars>>

----------------------------------------------------------------------------
(* ChatHandler.handle_send, from the await of messages.create on *)

InSend(c) == Handler(c) = "handle_send"

\* the events the upstream stream can give next: a text delta with the next
\* text unit, a delta that is no text (line 178), the two accounting signals,
\* and an event of another type
UpstreamEvents(c) ==
    [type : {"content_block_delta"}, delta : {"text_delta"},
     text : {<<TextUnits[Len(frame[c].text) + 1]>>},
     input_tokens : {0}, output_tokens : {0}]
    \cup [type : {"content_block_delta"}, delta : {"input_json_delta"},
          text : {<<>>}, input_tokens : {0}, output_tokens : {0}]
    \cup [type : {"message_start"}, delta : {None}, text : {<<>>},
          input_tokens : {2}, output_tokens : {1}]
    \cup [type : {"message_delta"}, delta : {None}, text : {<<>>},
          input_tokens : {0}, output_tokens : {3}]
    \cup [type : {"content_block_start"}, delta : {None}, text : {<<>>},
          input_tokens : {0}, output_tokens : {0}]

\* lines 241-251: asyncio.CancelledError is caught and the cancelled result
\* is yielded
Cancelled(c) ==
    /\ Produce(c, "result")
    /\ Goto(c, OnChunk(Chunk("result",
                             SendResult(frame[c].conversation_id, "cancelled", 0)),
                       req[c].id, NextItem(c)))

\* an except clause that raises again without notifying
FailedSilently(c, kind) ==
    /\ Produce(c, "raise")
    /\ Goto(c, Except("send_streaming_except", kind, req[c].id))
    /\ frame' = [frame EXCEPT ![c].exc = kind]

\* lines 252-262: another exception is caught; the error notification is
\* built and its send awaited
Failed(c, kind) ==
    /\ Produce(c, "notification")
    /\ Goto(c, send_handler_notification("error_255", ErrorParams, NextItem(c)))
    /\ frame' = [frame EXCEPT ![c].exc = kind]

\* line 158: messages.create returns the stream
UpstreamCreated(c) ==
    /\ pc[c] = "create_158"
    /\ InSend(c)
    /\ Goto(c, At("event_169"))
    /\ UNCHANGED <<routerRegs, req, out, calls, prod, chatVars>>

\* lines 169-203: the stream gives its next event
UpstreamEvent(c) ==
    /\ pc[c] = "event_169"
    /\ frame[c].events < MaxEvents
    /\ \E event \in UpstreamEvents(c) :
        IF event.type = "content_block_delta" /\ event.delta = "text_delta"
        THEN /\ frame' = [frame EXCEPT ![c].events = @ + 1,
                                       ![c].text = @ \o event.text]
             /\ Produce(c, "notification")
             /\ Goto(c, send_handler_notification(
                            "chunk_183",
                            ChunkParams(frame[c].conversation_id, event.text),
                            NextItem(c)))
        ELSE IF event.type \in {"message_delta", "message_start"}
        THEN /\ frame' = [frame EXCEPT ![c].events = @ + 1,
                                       ![c].input_tokens = event.input_tokens,
                                       ![c].output_tokens = event.output_tokens]
             /\ UNCHANGED <<pc, pend, prod>>
        ELSE /\ frame' = [frame EXCEPT ![c].events = @ + 1]
             /\ UNCHANGED <<pc, pend, prod>>
    /\ UNCHANGED <<routerRegs, req, out, calls, chatStore, orphans>>

\* lines 205-229: the stream is over; the assistant turn is appended, the
\* usage is computed and the send of the usage notification awaited
UpstreamEnd(c) ==
    /\ pc[c] = "event_169"
    /\ heap' = [heap EXCEPT ![frame[c].session].messages =
                    Append(@, Turn("assistant", frame[c].text))]
    /\ frame' = [frame EXCEPT ![c].appended = TRUE]
    /\ Produce(c, "notification")
    /\ Goto(c, send_handler_notification(
                   "usage_219",
                   UsageParams(frame[c].conversation_id,
                               frame[c].input_tokens, frame[c].output_tokens),
                   NextItem(c)))
    /\ UNCHANGED <<routerRegs, req, out, calls, sessions,
                   current_conversation_id, sdk_available, now, ticks, orphans>>

\* lines 158, 169: the upstream raises
UpstreamRaises(c) ==
    /\ pc[c] \in {"create_158", "event_169"}
    /\ \E kind \in raises[c] : Failed(c, kind)
    /\ UNCHANGED <<routerRegs, req, out, calls, chatStore, orphans>>

\* lines 158, 169: the cancellation signal arrives at an await of the upstream
CancelAtUpstream(c) ==
    /\ pc[c] \in {"create_158", "event_169"}
    /\ Cancelled(c)
    /\ UNCHANGED <<routerRegs, req, out, calls, chatVars>>

\* lines 183, 219: the cancellation signal arrives at the await of the send of
\* a chunk or of the usage notification
CancelAtSend(c) ==
    /\ pc[c] \in {"chunk_183", "usage_219"}
    /\ Await(c, "send_notification")
    /\ Cancelled(c)
    /\ UNCHANGED <<routerRegs, req, calls, chatVars>>

\* line 183: the send of a chunk notification returns or raises
SendChunk(c) ==
    /\ pc[c] = "chunk_183"
    /\ \E r \in SendOutcomes(c) :
        /\ Await(c, "send_notification")
        /\ IF r = "ok"
           THEN /\ Goto(c, At("event_169"))
                /\ UNCHANGED <<frame, prod>>
           ELSE Failed(c, r)
    /\ UNCHANGED <<routerRegs, req, calls, chatStore, orphans>>

\* lines 219-239: the send of the usage notification returns, and the result
\* is yielded, or it raises
SendUsage(c) ==
    /\ pc[c] = "usage_219"
    /\ \E r \in SendOutcomes(c) :
        /\ Await(c, "send_notification")
        /\ IF r = "ok"
           THEN /\ Produce(c, "result")
                /\ Goto(c, OnChunk(
                        Chunk("result",
                              SendResult(frame[c].conversation_id, "complete",
                                         TotalCost(frame[c].input_tokens,
                                                   frame[c].output_tokens))),
                        req[c].id, NextItem(c)))
                /\ UNCHANGED frame
           ELSE Failed(c, r)
    /\ UNCHANGED <<routerRegs, req, calls, chatStore, orphans>>

\* lines 255-266: the send of the error notification returns and the caught
\* exception is raised again, or the send raises; the finally clause runs and
\* the exception reaches the except clauses of _handle_streaming
SendChatError(c) ==
    /\ pc[c] = "error_255"
    /\ \E r \in SendOutcomes(c) :
        /\ Await(c, "send_notification")
        /\ Goto(c, Except("send_streaming_except",
                          IF r = "ok" THEN frame[c].exc ELSE r, req[c].id))
    /\ heap' = Finally(heap, frame[c].session)
    /\ frame' = [frame EXCEPT ![c] = Ended(@)]
    /\ Produce(c, "raise")
    /\ UNCHANGED <<routerRegs, req, calls, sessions, current_conversation_id,
                   sdk_available, now, ticks, orphans>>

\* line 299 after the yield of the result: the generator is resumed, leaves
\* the try through the finally clause and ends; _handle_streaming returns
ResumeAfterYield(c) ==
    /\ pc[c] = "anext_299"
    /\ InSend(c)
    /\ heap' = Finally(heap, frame[c].session)
    /\ frame' = [frame EXCEPT ![c] = Ended(@)]
    /\ Goto(c, Return)
    /\ Produce(c, "end")
    /\ UNCHANGED <<routerRegs, req, out, calls, sessions,
                   current_conversation_id, sdk_available, now, ticks, orphans>>

\* the event loop closes a generator the async for left suspended at its
\* yield: GeneratorExit is raised there and the finally clause runs
AsyncGenFinalize(obj) ==
    /\ obj \in orphans
    /\ heap' = Finally(heap, obj)
    /\ orphans' = orphans \ {obj}
    /\ UNCHANGED <<routerRegs, routerConn, sessions, current_conversation_id,
                   sdk_available, now, ticks, frame>>

----------------------------------------------------------------------------
(* ChatHandler.cleanup_old_sessions *)

\* datetime.timestamp() of the naive datetime utcnow() gave: seconds since the
\* epoch, reading the datetime as local time of the server's fixed zone
LocalOffset == SecondsPerHour

timestamp(dt) == dt - LocalOffset

\* line 295
Cutoff(max_age_hours) == timestamp(now) - (max_age_hours * SecondsPerHour)

\* a sweep that also deletes a session whose age is exactly the threshold
StaleAtThreshold(session, cutoff) ==
    timestamp(session.created_at) <= cutoff /\ ~session.is_active

\* line 299: the condition under which a session is deleted
Stale(session, cutoff) ==
    timestamp(session.created_at) < cutoff /\ ~session.is_active

\* lines 297-300
ToDelete(max_age_hours) ==
    {cid \in ConvIds : InStore(cid) /\ Stale(SessionOf(cid), Cutoff(max_age_hours))}

\* a sweep that also forgets the tracked id when it deletes its session
cleanup_forgetting_tracked_id(max_age_hours) ==
    /\ sessions' = [cid \in ConvIds |->
                      IF cid \in ToDelete(max_age_hours) THEN 0 ELSE sessions[cid]]
    /\ current_conversation_id' =
          (IF current_conversation_id \in ToDelete(max_age_hours)
           THEN None ELSE current_conversation_id)
    /\ UNCHANGED <<routerRegs, routerConn, heap,
                   sdk_available, now, ticks, orphans, frame>>

cleanup_old_sessions(max_age_hours) ==
    /\ sessions' = [cid \in ConvIds |->
                      IF cid \in ToDelete(max_age_hours) THEN 0 ELSE sessions[cid]]
    /\ UNCHANGED <<routerRegs, routerConn, heap, current_conversation_id,
                   sdk_available, now, ticks, orphans, frame>>

\* the thresholds the sweep is called with, in hours
MaxAges == {0, 1}

\* the clock advances by half an hour
Tick ==
    /\ ticks < MaxTicks
    /\ ticks' = ticks + 1
    /\ now' = now + (SecondsPerHour \div 2)
    /\ UNCHANGED <<routerRegs, routerConn, sessions, heap, current_conversation_id,
                   sdk_available, orphans, frame>>

----------------------------------------------------------------------------
(* The router with generic handlers, one connection *)

InitConn ==
    /\ pc = [c \in Conns |-> "idle"]
    /\ req = [c \in Conns |-> NoReq]
    /\ pend = [c \in Conns |-> NoEnvelope]
    /\ out = [c \in Conns |-> <<>>]
    /\ calls = [c \in Conns |-> <<>>]
    /\ prod = [c \in Conns |-> <<>>]
    /\ frame = [c \in Conns |-> NoFrame]

\* ChatHandler.__init__; the anthropic package is installed or it is not
InitChatHandler ==
    /\ sessions = [cid \in ConvIds |-> 0]
    /\ heap = <<>>
    /\ current_conversation_id = None
    /\ sdk_available \in BOOLEAN
    /\ now = 0
    /\ ticks = 0
    /\ orphans = {}

\* MessageRouter.__init__
Init ==
    /\ handlers = [m \in Registrable |-> None]
    /\ streaming_handlers = [m \in Registrable |-> None]
    /\ regHist = [m \in Registrable |-> <<>>]
    /\ InitConn
    /\ InitChatHandler
    /\ sdk_available = FALSE
    /\ raises = [c \in Conns |-> ExcKinds]

RouterStep(c) ==
    \/ SendDecodeError(c)
    \/ SendMethodNotFound(c)
    \/ SendOuterError(c)
    \/ UnaryHandlerDone(c)
    \/ SendUnaryResponse(c)
    \/ SendRegularError(c)
    \/ StreamYield(c)
    \/ StreamNotify(c)
    \/ StreamRaise(c)
    \/ StreamEnd(c)
    \/ SendStreamTerminal(c)
    \/ SendStreamNotification(c)
    \/ SendHandlerNotification(c)
    \/ SendStreamingError(c)

Register ==
    \/ \E m \in Registrable, h \in UnaryFns : RegisterHandler(m, h)
    \/ \E m \in Registrable, h \in StreamFns : RegisterStreamingHandler(m, h)

Next ==
    \/ Register
    \/ \E m \in Messages : Receive("c1", m)
    \/ RouterStep("c1")

Spec == Init /\ [][Next]_vars

----------------------------------------------------------------------------
(* The chat handler behind the router, two connections *)

\* the router once chat.send is registered as a streaming handler and
\* chat.status and chat.cancel as unary handlers
InitChat ==
    /\ handlers = [m \in {"chat.status", "chat.cancel"} |->
                     IF m = "chat.status" THEN "handle_status" ELSE "handle_cancel"]
    /\ streaming_handlers = [m \in {"chat.send"} |-> "handle_send"]
    /\ regHist = [m \in Registrable |-> <<>>]
    /\ InitConn
    /\ InitChatHandler
    /\ raises = [c \in Conns |-> IF c = "c1" THEN {"RuntimeError", "Exception"} ELSE {}]

\* what each connection sends: c1 everything, c2 chat.cancel
Inbound(c) ==
    IF c = "c1" THEN ChatMessages ELSE {m \in ChatMessages : m.method = "chat.cancel"}

ChatStep(c) ==
    \/ \E m \in Inbound(c) : Receive(c, m)
    \/ UpstreamCreated(c)
    \/ UpstreamEvent(c)
    \/ UpstreamEnd(c)
    \/ UpstreamRaises(c)
    \/ CancelAtUpstream(c)
    \/ CancelAtSend(c)
    \/ SendChunk(c)
    \/ SendUsage(c)
    \/ SendChatError(c)
    \/ ResumeAfterYield(c)
    \/ SendStreamTerminal(c)
    \/ SendStreamingError(c)
    \/ SendUnaryResponse(c)
    \/ SendRegularError(c)
    \/ SendOuterError(c)

NextChat ==
    \/ \E c \in Conns : ChatStep(c)
    \/ \E obj \in orphans : AsyncGenFinalize(obj)

SpecChat == InitChat /\ [][NextChat]_vars

----------------------------------------------------------------------------
(* The chat handler under fair scheduling: the event loop runs every task
   that is ready, the upstream answers every call (it may raise) and its
   stream is finite (MaxEvents), and every send that is awaited returns *)

InitLive ==
    /\ handlers = [m \in {"chat.status", "chat.cancel"} |->
                     IF m = "chat.status" THEN "handle_status" ELSE "handle_cancel"]
    /\ streaming_handlers = [m \in {"chat.send"} |-> "handle_send"]
    /\ regHist = [m \in Registrable |-> <<>>]
    /\ InitConn
    /\ InitChatHandler
    /\ raises = [c \in Conns |-> IF c = "c1" THEN {"Exception"} ELSE {}]

\* the awaited send of c returns: the step of the send action that goes on
\* where the code goes on after the await. (After the send of chat.error,
\* line 255, the code goes on the same way whether the send returned or
\* raised: the exception that reaches the router is of the same class here)
SendReturns(c) ==
    \/ SendChunk(c) /\ pc'[c] = "event_169"
    \/ SendUsage(c) /\ pc'[c] = "send_306"
    \/ SendChatError(c)
    \/ SendStreamTerminal(c) /\ pc'[c] = "anext_299"
    \/ SendStreamingError(c) /\ pc'[c] = "returned"
    \/ SendUnaryResponse(c) /\ pc'[c] = "returned"

\* the steps of c that an await coming back enables
Progress(c) ==
    \/ UpstreamCreated(c)
    \/ UpstreamEvent(c)
    \/ UpstreamEnd(c)
    \/ UpstreamRaises(c)
    \/ SendReturns(c)
    \/ ResumeAfterYield(c)

LiveStep(c) ==
    \/ \E m \in Inbound(c) : Receive(c, m)
    \/ CancelAtUpstream(c)
    \/ CancelAtSend(c)
    \/ Progress(c)

NextLive == \E c \in Conns : LiveStep(c)

SpecChatLive ==
    /\ InitLive
    /\ [][NextLive]_vars
    /\ \A c \in Conns : WF_vars(Progress(c))

----------------------------------------------------------------------------
(* The session store under the clock and the eviction sweep: no send and no
   upstream call fails, and the upstream streams no event *)

InitStore ==
    /\ handlers = [m \in {"chat.status", "chat.cancel"} |->
                     IF m = "chat.status" THEN "handle_status" ELSE "handle_cancel"]
    /\ streaming_handlers = [m \in {"chat.send"} |-> "handle_send"]
    /\ regHist = [m \in Registrable |-> <<>>]
    /\ InitConn
    /\ InitChatHandler
    /\ sdk_available = TRUE
    /\ raises = [c \in Conns |-> {}]

StoreStep(c) ==
    \/ \E m \in Inbound(c) : Receive(c, m)
    \/ UpstreamCreated(c)
    \/ UpstreamEnd(c)
    \/ CancelAtUpstream(c)
    \/ CancelAtSend(c)
    \/ SendUsage(c)
    \/ ResumeAfterYield(c)
    \/ SendStreamTerminal(c)
    \/ SendStreamingError(c)
    \/ SendUnaryResponse(c)

NextStore ==
    \/ \E c \in Conns : StoreStep(c)
    \/ \E max_age_hours \in MaxAges : cleanup_old_sessions(max_age_hours)
    \/ Tick

SpecStore == InitStore /\ [][NextStore]_vars

----------------------------------------------------------------------------
(* Two connections that both run exchanges on the one handler, with the
   clock and the eviction sweep: no send and no upstream call fails, no
   exchange is cancelled, and the upstream streams no event *)

\* both connections send chat.send with a text that is not blank
PairMessages == {m \in ChatMessages : m.method = "chat.send" /\ m.params # <<" ">>}

PairStep(c) ==
    \/ \E m \in PairMessages : Receive(c, m)
    \/ UpstreamCreated(c)
    \/ UpstreamEnd(c)
    \/ SendUsage(c)
    \/ SendStreamTerminal(c)
    \/ ResumeAfterYield(c)

NextPair ==
    \/ \E c \in Conns : PairStep(c)
    \/ \E max_age_hours \in MaxAges : cleanup_old_sessions(max_age_hours)
    \/ Tick

SpecPair == InitStore /\ [][NextPair]_vars

----------------------------------------------------------------------------
(* Two connections routing requests to one generic streaming handler *)

InitStreams ==
    /\ handlers = [m \in Registrable |-> None]
    /\ streaming_handlers = [m \in Registrable |-> "s1"]
    /\ regHist = [m \in Registrable |-> <<"s1">>]
    /\ InitConn
    /\ InitChatHandler
    /\ sdk_available = FALSE
    /\ raises = [c \in Conns |-> IF c = "c1" THEN {"Exception"} ELSE {}]

StreamRequests == {m \in ObjectMessages : m.version /\ m.method \in Registrable}

StreamStep(c) ==
    \/ \E m \in StreamRequests : Receive(c, m)
    \/ StreamYield(c)
    \/ StreamNotify(c)
    \/ StreamRaise(c)
    \/ StreamEnd(c)
    \/ SendStreamTerminal(c)
    \/ SendStreamNotification(c)
    \/ SendHandlerNotification(c)
    \/ SendStreamingError(c)
    \/ SendOuterError(c)

NextStreams == \E c \in Conns : StreamStep(c)

SpecStreams == InitStreams /\ [][NextStreams]_vars

----------------------------------------------------------------------------
(* Properties of the router: replies *)

\* the positions of the transport log of c where send_response was called
Replies(c) == {i \in 1..Len(out[c]) : out[c][i].via = "send_response"}

\* the route call of c is over
Over(c) == pc[c] \in {"returned", "raised"}

\* C1: once route_message is over for a well-formed request with an id that
\* was dispatched to a registered handler, exactly one reply carrying that id
\* was handed to send_response
C1_ExactlyOneTerminalReply ==
    \A c \in Conns :
        (/\ Over(c)
         /\ Decode(req[c]).at = "ok"
         /\ req[c].id # None
         /\ calls[c] # <<>>)
        => Cardinality({i \in Replies(c) : out[c][i].env.id = req[c].id}) = 1

\* C2: while and after a message without id (a notification) is routed,
\* send_response is never called
C2_NotificationNeverReplied ==
    \A c \in Conns :
        (req[c].form = "object" /\ req[c].id = None) => Replies(c) = {}

\* C3: every reply handed to send_response comes after every notification the
\* streaming handler produced before it: before its item k when the reply is
\* the handler's item k, before its end when the router built the reply
C3_NotificationsBeforeTerminal ==
    \A c \in Conns : \A i \in Replies(c) :
        LET k == out[c][i].env.k
            before == IF k > 0 THEN 1..(k - 1) ELSE 1..Len(prod[c])
        IN  \A j \in before :
                prod[c][j] = "notification"
                => \E h \in 1..(i - 1) :
                       /\ out[c][h].via = "send_notification"
                       /\ out[c][h].env.k = j

\* a request got its notification and then its result, items 1 and 2 of the
\* handler, while the other connection has a streaming request under way
C3_Witness ==
    \E c \in Conns, d \in Conns :
        /\ c # d
        /\ Len(out[c]) = 2
        /\ out[c][1].via = "send_notification"
        /\ out[c][1].env.k = 1
        /\ out[c][2].via = "send_response"
        /\ out[c][2].env.kind = "result"
        /\ out[c][2].env.k = 2
        /\ ~Parked(d)
        /\ out[d] # <<>>

\* C6: when a streaming handler ended without a result or error item, an
\* INTERNAL_ERROR reply carrying the request id was handed to send_response
C6_EndWithoutTerminalIsInternalError ==
    \A c \in Conns :
        (/\ prod[c] # <<>>
         /\ prod[c][Len(prod[c])] = "end"
         /\ \A j \in 1..Len(prod[c]) : prod[c][j] \notin {"result", "error"})
        => \E i \in Replies(c) :
               /\ out[c][i].env.kind = "error"
               /\ out[c][i].env.code = INTERNAL_ERROR
               /\ out[c][i].env.id = req[c].id

\* C10: a request with an id whose method is in neither registry when it is
\* dispatched invokes no handler and goes to the send of a METHOD_NOT_FOUND
\* error with its id; that error is the first envelope handed to
\* send_response, it is handed once, and no handler is invoked afterwards
C10_UnregisteredIsMethodNotFound ==
    /\ [][\A c \in Conns, m \in ObjectMessages :
            (/\ Receive(c, m)
             /\ Decode(m).at = "ok"
             /\ m.id # None
             /\ ~InDict(handlers, m.method)
             /\ ~InDict(streaming_handlers, m.method))
            => (/\ calls'[c] = <<>>
                /\ pc'[c] = "send_204"
                /\ pend'[c].kind = "error"
                /\ pend'[c].code = METHOD_NOT_FOUND
                /\ pend'[c].id = m.id)]_vars
    /\ [](\A c \in Conns :
            (pc[c] = "send_204"
             \/ (out[c] # <<>> /\ out[c][1].env.code = METHOD_NOT_FOUND))
            => (/\ calls[c] = <<>>
                /\ pc[c] = "send_204" => out[c] = <<>>
                /\ pc[c] # "send_204" =>
                    (/\ out[c][1].via = "send_response"
                     /\ out[c][1].env.kind = "error"
                     /\ out[c][1].env.id = req[c].id
                     /\ Cardinality({i \in 1..Len(out[c]) :
                                        out[c][i].env.code = METHOD_NOT_FOUND}) = 1)))

\* the route of request "1" for the unregistered "foo" is over: one
\* METHOD_NOT_FOUND error with id "1" was sent and no handler invoked, while a
\* handler is registered for another name
C10_Witness ==
    /\ pc["c1"] = "returned"
    /\ req["c1"].method = "foo"
    /\ req["c1"].id = "1"
    /\ calls["c1"] = <<>>
    /\ Len(out["c1"]) = 1
    /\ out["c1"][1].via = "send_response"
    /\ out["c1"][1].env.kind = "error"
    /\ out["c1"][1].env.code = METHOD_NOT_FOUND
    /\ out["c1"][1].env.id = "1"
    /\ \E m \in Registrable : InDict(handlers, m) \/ InDict(streaming_handlers, m)

----------------------------------------------------------------------------
(* Properties of the registries *)

\* the handler of a kind registered last for a name, None when there is none
LastRegistered(hist, fns) ==
    LET I == {i \in 1..Len(hist) : hist[i] \in fns}
    IN  IF I = {} THEN None ELSE hist[CHOOSE i \in I : \A j \in I : j <= i]

----------------------------------------------------------------------------
(* Properties of the chat handler *)

\* C4: a session whose is_active flag is true has a handle_send exchange in
\* flight: a route call that has not returned runs handle_send on it
C4_ActiveOnlyInFlight ==
    \A cid \in ConvIds :
        (InStore(cid) /\ SessionOf(cid).is_active)
        => \E c \in Conns :
               /\ ~Parked(c)
               /\ InSend(c)
               /\ frame[c].session = sessions[cid]

\* C5: an exchange on which chat.cancel was invoked while it was sending
\* yields the result "cancelled" with cost 0 and has appended no assistant turn
C5_CancelEndsCancelled ==
    \A c \in Conns :
        (InSend(c) /\ frame[c].cancelSeen /\ pc[c] = "send_306")
        => (/\ pend[c].body.tag = "cancelled"
            /\ pend[c].body.cost = 0
            /\ ~frame[c].appended)

----------------------------------------------------------------------------
(* Properties of unary dispatch *)

----------------------------------------------------------------------------
(* Properties of the entry of handle_send *)

\* a chat.send message whose text is made of blanks only (or of nothing)
BlankSend(m) ==
    /\ m.method = "chat.send"
    /\ \A i \in 1..Len(m.params) : m.params[i] = " "

\* C12: a chat.send request whose text is empty after trimming goes to the
\* send of an INVALID_PARAMS error with its id; no step of its route changes
\* the sessions, a session object or the tracked conversation id, and nothing
\* but replies is handed to the transport (no notification)
C12_EmptyMessageRejected ==
    /\ [][\A c \in Conns, m \in ChatMessages :
            (Receive(c, m) /\ BlankSend(m))
            => (/\ pc'[c] = "send_streaming_except"
                /\ pend'[c].kind = "error"
                /\ pend'[c].code = INVALID_PARAMS
                /\ pend'[c].id = m.id
                /\ out'[c] = <<>>
                /\ UNCHANGED <<sessions, heap, current_conversation_id>>)]_vars
    /\ [][\A c \in Conns :
            ((SendStreamingError(c) \/ SendOuterError(c)) /\ BlankSend(req[c]))
            => UNCHANGED <<sessions, heap, current_conversation_id>>]_vars
    /\ [](\A c \in Conns :
            BlankSend(req[c])
            => (/\ \A i \in 1..Len(out[c]) : out[c][i].via = "send_response"
                /\ out[c] # <<>> =>
                    (/\ out[c][1].env.kind = "error"
                     /\ out[c][1].env.code = INVALID_PARAMS
                     /\ out[c][1].env.id = req[c].id)))

\* a blank chat.send request was answered by one INVALID_PARAMS error, with
\* the SDK available and the session of an earlier exchange in the store
C12_Witness ==
    /\ pc["c1"] = "returned"
    /\ BlankSend(req["c1"])
    /\ sdk_available
    /\ Len(heap) = 1
    /\ Len(out["c1"]) = 1
    /\ out["c1"][1].env.code = INVALID_PARAMS
    /\ out["c1"][1].env.id = req["c1"].id

\* a chat.send message whose text has a character that is not a blank
TextSend(m) ==
    /\ m.method = "chat.send"
    /\ \E i \in 1..Len(m.params) : m.params[i] # " "

\* C13: a chat.send request with a non-empty text made while the SDK is not
\* available goes to the send of an SDK_UNAVAILABLE error with its id; no step
\* of its route changes the sessions, a session object or the tracked
\* conversation id
C13_SdkUnavailableRejected ==
    /\ [][\A c \in Conns, m \in ChatMessages :
            (Receive(c, m) /\ TextSend(m) /\ ~sdk_available)
            => (/\ pc'[c] = "send_streaming_except"
                /\ pend'[c].kind = "error"
                /\ pend'[c].code = SDK_UNAVAILABLE
                /\ pend'[c].id = m.id
                /\ out'[c] = <<>>
                /\ UNCHANGED <<sessions, heap, current_conversation_id>>)]_vars
    /\ [][\A c \in Conns :
            (/\ SendStreamingError(c) \/ SendOuterError(c)
             /\ TextSend(req[c])
             /\ ~sdk_available)
            => UNCHANGED <<sessions, heap, current_conversation_id>>]_vars
    /\ [](\A c \in Conns :
            (TextSend(req[c]) /\ ~sdk_available /\ out[c] # <<>>)
            => (/\ out[c][1].via = "send_response"
                /\ out[c][1].env.kind = "error"
                /\ out[c][1].env.code = SDK_UNAVAILABLE
                /\ out[c][1].env.id = req[c].id))

\* a chat.send request with text "h " was answered by one SDK_UNAVAILABLE
\* error while the SDK is not available; no session exists
C13_Witness ==
    /\ ~sdk_available
    /\ pc["c1"] = "returned"
    /\ TextSend(req["c1"])
    /\ Len(out["c1"]) = 1
    /\ out["c1"][1].env.code = SDK_UNAVAILABLE
    /\ out["c1"][1].env.id = req["c1"].id
    /\ heap = <<>>
    /\ current_conversation_id = None

----------------------------------------------------------------------------
(* Properties of decoding and validation *)

\* a message route_message rejects before dispatch: undecodable text, a
\* decoded value that is no object, a jsonrpc other than '2.0', or a missing
\* or empty method
Rejected(m) ==
    m.form \in {"badjson", "nonobject"} \/ (m.form = "object" /\ (~m.version \/ m.method = None))

\* the first reply of the route call of c: the first envelope handed over, or
\* the pending one while nothing is handed over yet
FirstReply(c) == IF out[c] # <<>> THEN out[c][1].env ELSE pend[c]

\* C14, as claimed: the error reply to a rejected message carries id null
C14_RejectedReplyHasNullId ==
    \A c \in Conns :
        Rejected(req[c])
        => (FirstReply(c).kind = "error" /\ FirstReply(c).id = None)

\* C14, amended: the error reply to an undecodable message or to a decoded
\* value that is no object carries id null; the error reply to an object with
\* a wrong jsonrpc or without method carries the id of that object (null
\* when it has none)
C14_RejectedReplyId ==
    \A c \in Conns :
        Rejected(req[c])
        => (/\ FirstReply(c).kind = "error"
            /\ FirstReply(c).id =
                 IF req[c].form = "object" THEN req[c].id ELSE None
            /\ out[c] # <<>> => out[c][1].via = "send_response")

\* an object with id "1" and a wrong jsonrpc was answered by an error with
\* id "1"
C14_Witness ==
    /\ pc["c1"] = "returned"
    /\ req["c1"].form = "object"
    /\ ~req["c1"].version
    /\ req["c1"].id = "1"
    /\ Len(out["c1"]) = 1
    /\ out["c1"][1].env.kind = "error"
    /\ out["c1"][1].env.id = "1"

\* C15, as claimed: an undecodable message and a decoded value that is no
\* object are both answered with PARSE_ERROR, a wrong jsonrpc and a missing
\* method with INVALID_REQUEST, and no handler is invoked
C15_NonObjectIsParseError ==
    \A c \in Conns :
        Rejected(req[c])
        => (/\ calls[c] = <<>>
            /\ FirstReply(c).code =
                 IF req[c].form = "object" THEN INVALID_REQUEST ELSE PARSE_ERROR)

\* C15, amended: only an undecodable message is answered with PARSE_ERROR; a
\* decoded value that is no object, a wrong jsonrpc and a missing method are
\* answered with INVALID_REQUEST; no handler is invoked
C15_NonObjectIsInvalidRequest ==
    \A c \in Conns :
        Rejected(req[c])
        => (/\ calls[c] = <<>>
            /\ FirstReply(c).kind = "error"
            /\ FirstReply(c).code =
                 IF req[c].form = "badjson" THEN PARSE_ERROR ELSE INVALID_REQUEST)

\* a decoded value that is no object was answered by an INVALID_REQUEST
\* error, with a handler registered
C15_Witness ==
    /\ pc["c1"] = "returned"
    /\ req["c1"].form = "nonobject"
    /\ calls["c1"] = <<>>
    /\ Len(out["c1"]) = 1
    /\ out["c1"][1].env.code = INVALID_REQUEST
    /\ \E m \in Registrable : InDict(handlers, m) \/ InDict(streaming_handlers, m)

----------------------------------------------------------------------------
(* Properties of a conversation exchange *)

\* the positions of the transport log of c that hold a notification of handle_send
\* with the given method
Notes(c, method) ==
    {i \in 1..Len(out[c]) :
        out[c][i].via = "send_notification" /\ out[c][i].env.body.tag = method}

\* C16: when the upstream raises while handle_send awaits it, nothing but
\* chunk notifications was sent so far and the chat.error notification is the
\* next envelope sent; after its send the router's error reply with the
\* request id is pending; a route sends at most one chat.error notification,
\* every reply it sends comes after it and is an error with the request id,
\* and no chat.usage notification follows it
C16_UpstreamFailure ==
    /\ [][\A c \in Conns :
            UpstreamRaises(c)
            => (/\ pc'[c] = "error_255"
                /\ pend'[c].kind = "notification"
                /\ pend'[c].body.tag = "chat.error"
                /\ Replies(c) = {}
                /\ Notes(c, "chat.usage") = {}
                /\ Notes(c, "chat.error") = {}
                /\ out'[c] = out[c])]_vars
    /\ [][\A c \in Conns :
            SendChatError(c)
            => (/\ out'[c] = Append(out[c], [via |-> "send_notification",
                                             env |-> pend[c]])
                /\ pc'[c] = "send_streaming_except"
                /\ pend'[c].kind = "error"
                /\ pend'[c].id = req[c].id)]_vars
    /\ [](\A c \in Conns : \A h \in Notes(c, "chat.error") :
            /\ Notes(c, "chat.error") = {h}
            /\ \A i \in Replies(c) :
                   /\ i > h
                   /\ out[c][i].env.kind = "error"
                   /\ out[c][i].env.id = req[c].id
            /\ \A i \in Notes(c, "chat.usage") : i < h)

\* an exchange whose upstream raised before any text is over: the chat.error
\* notification and then the error reply with the request id were sent
C16_Witness ==
    /\ pc["c1"] = "returned"
    /\ InSend("c1")
    /\ Len(out["c1"]) = 2
    /\ out["c1"][1].via = "send_notification"
    /\ out["c1"][1].env.body.tag = "chat.error"
    /\ out["c1"][2].via = "send_response"
    /\ out["c1"][2].env.kind = "error"
    /\ out["c1"][2].env.id = req["c1"].id

\* C17: when handle_send raised after it had accepted its input and found the
\* SDK available (it got to its session), the error reply built for the
\* exception carries INTERNAL_ERROR
C17_HandlerFailureIsInternalError ==
    \A c \in Conns :
        (/\ InSend(c)
         /\ pc[c] = "send_streaming_except"
         /\ frame[c].session # 0
         /\ prod[c] # <<>>
         /\ prod[c][Len(prod[c])] = "raise")
        => pend[c].code = INTERNAL_ERROR

\* the last element of a non-empty sequence
Last(seq) == seq[Len(seq)]

\* C18: when the upstream stream of an exchange is over, only chunk
\* notifications have been sent; the assistant turn is appended to the
\* session's history and the chat.usage notification is then pending; a
\* result "complete" is handed over right after the one chat.usage
\* notification of the route, with the same conversation id and cost, all
\* envelopes before these two are chunk notifications, and the exchange has
\* appended its assistant turn
C18_CompletionOrder ==
    /\ [][\A c \in Conns :
            UpstreamEnd(c)
            => (/\ Notes(c, "chat.response.chunk") = 1..Len(out[c])
                /\ heap'[frame[c].session].messages =
                       Append(heap[frame[c].session].messages,
                              [role |-> "assistant", content |-> frame[c].text])
                /\ pc'[c] = "usage_219"
                /\ pend'[c].body.tag = "chat.usage"
                /\ pend'[c].body.conversation_id = frame[c].conversation_id
                /\ out'[c] = out[c])]_vars
    /\ [](\A c \in Conns : \A i \in Replies(c) :
            (out[c][i].env.kind = "result" /\ out[c][i].env.body.tag = "complete")
            => (/\ i >= 2
                /\ Notes(c, "chat.usage") = {i - 1}
                /\ Notes(c, "chat.response.chunk") = 1..(i - 2)
                /\ out[c][i].env.body.conversation_id
                       = out[c][i - 1].env.body.conversation_id
                /\ out[c][i].env.body.conversation_id = frame[c].conversation_id
                /\ out[c][i].env.body.cost = out[c][i - 1].env.body.cost
                /\ frame[c].appended))

\* an exchange is over after one chunk notification, the chat.usage
\* notification and the result "complete", with a cost above 0
C18_Witness ==
    /\ pc["c1"] = "returned"
    /\ Len(out["c1"]) = 3
    /\ out["c1"][1].env.body.tag = "chat.response.chunk"
    /\ out["c1"][2].env.body.tag = "chat.usage"
    /\ out["c1"][3].env.body.tag = "complete"
    /\ out["c1"][3].env.body.cost > 0
    /\ Last(heap[frame["c1"].session].messages).role = "assistant"

\* C19: an exchange that yields the result "cancelled" has appended no
\* assistant turn to the session's history and has sent no chat.usage
\* notification, whatever the await the cancellation was delivered at
C19_CancelledLeavesNoTrace ==
    \A c \in Conns :
        (/\ InSend(c)
         /\ pc[c] = "send_306"
         /\ pend[c].kind = "result"
         /\ pend[c].body.tag = "cancelled")
        => (/\ ~frame[c].appended
            /\ Notes(c, "chat.usage") = {})

\* the contents of the chunk notifications of a transport log, concatenated in
\* the order of the log
RECURSIVE ChunkContents(_)
ChunkContents(log) ==
    IF log = <<>> THEN <<>>
    ELSE (IF /\ Head(log).via = "send_notification"
             /\ Head(log).env.body.tag = "chat.response.chunk"
          THEN Head(log).env.body.content ELSE <<>>)
         \o ChunkContents(Tail(log))

\* C20: an upstream event that is a text unit makes handle_send send one chunk
\* notification with that unit and the conversation id of the exchange, any
\* other event sends nothing; while the upstream is consumed the chunk
\* notifications sent are the text units received, one each and in their
\* order; when the upstream stream is over the assistant turn appended to the
\* history is the concatenation of the chunk contents
C20_OneChunkPerTextUnit ==
    /\ [][\A c \in Conns :
            /\ (UpstreamEvent(c) /\ frame'[c].text # frame[c].text)
               => (/\ pc'[c] = "chunk_183"
                   /\ pend'[c].kind = "notification"
                   /\ pend'[c].body.tag = "chat.response.chunk"
                   /\ pend'[c].body.conversation_id = frame[c].conversation_id
                   /\ frame[c].conversation_id \in ConvIds
                   /\ frame'[c].text = frame[c].text \o pend'[c].body.content
                   /\ pend'[c].body.content
                          = <<TextUnits[Len(ChunkContents(out[c])) + 1]>>)
            /\ (UpstreamEvent(c) /\ frame'[c].text = frame[c].text)
               => (pc'[c] = "event_169" /\ out'[c] = out[c] /\ pend'[c] = pend[c])
            /\ UpstreamEnd(c)
               => (Last(heap'[frame[c].session].messages) =
                       [role |-> "assistant", content |-> ChunkContents(out[c])])]_vars
    /\ [](\A c \in Conns :
            (InSend(c) /\ pc[c] \in {"event_169", "chunk_183", "usage_219"})
            => (/\ ChunkContents(out[c])
                       \o (IF pc[c] = "chunk_183" THEN pend[c].body.content ELSE <<>>)
                   = frame[c].text
                /\ frame[c].text = SubSeq(TextUnits, 1, Len(frame[c].text))
                /\ Cardinality(Notes(c, "chat.response.chunk"))
                       + (IF pc[c] = "chunk_183" THEN 1 ELSE 0)
                   = Len(frame[c].text)
                /\ Len(frame[c].text) <= frame[c].events
                /\ \A i \in Notes(c, "chat.response.chunk") :
                       out[c][i].env.body.conversation_id = frame[c].conversation_id))

\* an exchange is over after two text units: two chunk notifications, "a" and
\* then "b", were sent and the assistant turn appended is "ab"
C20_Witness ==
    /\ pc["c1"] = "returned"
    /\ Cardinality(Notes("c1", "chat.response.chunk")) = 2
    /\ ChunkContents(out["c1"]) = <<"a", "b">>
    /\ frame["c1"].appended
    /\ Last(heap[frame["c1"].session].messages) =
           [role |-> "assistant", content |-> <<"a", "b">>]


----------------------------------------------------------------------------
(* Properties of the chat handler: the end of an exchange *)

\* C21: when the terminal reply of an exchange (the result "complete" or
\* "cancelled", or the error reply after a failure past the entry) is about
\* to be handed to send_response, the is_active flag of the exchange's
\* session is false
C21_InactiveBeforeTerminalReply ==
    \A c \in Conns :
        (/\ InSend(c)
         /\ frame[c].session # 0
         /\ pc[c] \in {"send_306", "send_streaming_except"})
        => ~heap[frame[c].session].is_active


\* C22: a chat.cancel request never raises: its response is pending next. With
\* no tracked conversation the result is cancelled = false without
\* conversation id and no session changes; otherwise the result is
\* cancelled = true with the tracked id and the session stored for that id
\* has is_active false afterwards. The store, the tracked id, every history
\* and every other session's flag are as before
C22_CancelIsBestEffort ==
    [][\A c \in Conns : \A m \in ChatMessages :
        (Receive(c, m) /\ m.method = "chat.cancel")
        => (/\ pc'[c] = "send_243"
            /\ pend'[c].kind = "result"
            /\ pend'[c].id = m.id
            /\ pend'[c].body.tag = "cancel"
            /\ pend'[c].body.flag = (current_conversation_id # None)
            /\ pend'[c].body.conversation_id = current_conversation_id
            /\ sessions' = sessions
            /\ current_conversation_id' = current_conversation_id
            /\ Len(heap') = Len(heap)
            /\ \A obj \in 1..Len(heap) :
                   /\ heap'[obj].messages = heap[obj].messages
                   /\ heap'[obj].conversation_id = heap[obj].conversation_id
                   /\ heap'[obj].created_at = heap[obj].created_at
                   /\ heap'[obj].is_active =
                          IF /\ current_conversation_id # None
                             /\ sessions[current_conversation_id] = obj
                          THEN FALSE ELSE heap[obj].is_active)]_vars

\* chat.cancel was invoked from the second connection while the exchange of
\* the first one was sending: cancelled = true is pending and the session of
\* that exchange has is_active false
C22_Witness ==
    /\ pc["c2"] = "send_243"
    /\ pend["c2"].body.tag = "cancel"
    /\ pend["c2"].body.flag
    /\ pend["c2"].body.conversation_id = frame["c1"].conversation_id
    /\ Sending("c1")
    /\ frame["c1"].cancelSeen
    /\ ~heap[frame["c1"].session].is_active


\* C23: a step that is not the eviction sweep keeps every entry of the store:
\* an id that has a session keeps that very session object, and no session
\* object is dropped or rebuilt
C23_OnlySweepRemoves ==
    [][\/ \E max_age_hours \in MaxAges : cleanup_old_sessions(max_age_hours)
       \/ /\ \A cid \in ConvIds : sessions[cid] # 0 => sessions'[cid] = sessions[cid]
          /\ Len(heap') >= Len(heap)
          /\ \A obj \in 1..Len(heap) :
                 /\ heap'[obj].conversation_id = heap[obj].conversation_id
                 /\ heap'[obj].created_at = heap[obj].created_at]_vars

\* a second exchange is sending on the session of an earlier exchange that
\* did not complete: the one session object holds both user turns
C23_Witness ==
    /\ Sending("c1")
    /\ Len(heap) = 1
    /\ sessions[frame["c1"].conversation_id] = 1
    /\ Len(heap[1].messages) = 2
    /\ heap[1].messages[1].role = "user"
    /\ heap[1].messages[2].role = "user"


----------------------------------------------------------------------------
(* Properties of the router: one outcome per request *)

\* the kinds of the replies handed to send_response by the route call of c
ReplyKinds(c) == {out[c][i].env.kind : i \in Replies(c)}

\* C24: the route call of a request dispatched to a unary handler never hands
\* both a response with a result and an error reply to send_response
C24_UnaryNeverBoth ==
    \A c \in Conns :
        Handler(c) \in UnaryFns
        => ~({"result", "error"} \subseteq ReplyKinds(c))


\* C25: in the route call of a request dispatched to a streaming handler, a
\* terminal reply (a chunk with result or error, or the error reply of an
\* except clause) handed to send_response is the last envelope handed to the
\* transport; stated for the connections on which nothing raises, where
\* every send succeeds and only the handler decides what follows
C25_TerminalIsLast ==
    \A c \in Conns :
        (Handler(c) \in StreamFns /\ raises[c] = {})
        => \A i \in Replies(c) : i = Len(out[c])


\* C26: every envelope handed to the transport carries jsonrpc "2.0"
C26_EveryEnvelopeHasVersion ==
    \A c \in Conns : \A i \in 1..Len(out[c]) : out[c][i].env.jsonrpc = "2.0"


\* C27: no route_message call ends with an exception that leaves it
C27_RouteNeverRaises ==
    \A c \in Conns : pc[c] # "raised"


----------------------------------------------------------------------------
(* Properties of the router: dispatch *)

\* C28: a valid message for a name that is in both registries invokes the
\* handler of the streaming registry, and that handler only; a valid message
\* for a name that is in the unary registry only invokes the unary handler
C28_StreamingShadowsUnary ==
    [][\A c \in Conns, m \in ObjectMessages :
        (/\ Receive(c, m)
         /\ Decode(m).at = "ok"
         /\ m.method \in Registrable
         /\ handlers[m.method] # None)
        => IF streaming_handlers[m.method] # None
           THEN /\ calls'[c] = <<streaming_handlers[m.method]>>
                /\ pc'[c] = "anext_299"
           ELSE /\ calls'[c] = <<handlers[m.method]>>
                /\ pc'[c] = "await_231"]_vars

\* "op" is in both registries and a notification chunk of its streaming
\* handler is about to be sent
C28_Witness ==
    /\ handlers["op"] \in UnaryFns
    /\ streaming_handlers["op"] \in StreamFns
    /\ calls["c1"] = <<streaming_handlers["op"]>>
    /\ pc["c1"] = "send_309"


----------------------------------------------------------------------------
(* Properties of the chat handler: history and usage *)

C30_UsageAccumulates ==
    [][\A c \in Conns :
        UpstreamEvent(c)
        => (/\ frame'[c].input_tokens >= frame[c].input_tokens
            /\ frame'[c].output_tokens >= frame[c].output_tokens)]_vars


----------------------------------------------------------------------------
(* Properties of the chat handler: termination *)

\* how the handle_send call of c ended, as far as it has: the status of each
\* result it yielded, and "failed" when it raised
Outcomes(c) ==
    {out[c][i].env.body.tag :
        i \in {j \in Replies(c) : out[c][j].env.kind = "result"}}
    \cup (IF pc[c] = "send_306" THEN {pend[c].body.tag} ELSE {})
    \cup (IF prod[c] # <<>> /\ prod[c][Len(prod[c])] = "raise" THEN {"failed"} ELSE {})

\* the exchange of c is over: its route call returned with one outcome, a
\* reply was handed to send_response, and its session's flag is false
Settled(c) ==
    /\ pc[c] = "returned"
    /\ InSend(c)
    /\ Cardinality(Outcomes(c)) = 1
    /\ Outcomes(c) \subseteq {"complete", "cancelled", "failed"}
    /\ Replies(c) # {}
    /\ frame[c].session # 0
    /\ ~heap[frame[c].session].is_active

\* C31: under fair scheduling an exchange that is sending ends: its route
\* call returns with exactly one of the outcomes complete, cancelled and
\* failed, after a reply was handed to send_response, and with the flag of
\* its session false; and a flag that is false becomes true only in the step
\* that starts an exchange
C31_ExchangeTerminates ==
    /\ \A c \in Conns : Sending(c) ~> Settled(c)
    /\ [][\A obj \in 1..Len(heap) :
            (~heap[obj].is_active /\ heap'[obj].is_active)
            => \E c \in Conns, m \in ChatMessages :
                   Receive(c, m) /\ m.method = "chat.send" /\ pc'[c] = "create_158"]_vars

\* an exchange that streamed one text unit is over with the outcome complete
C31_Witness ==
    /\ Settled("c1")
    /\ Outcomes("c1") = {"complete"}
    /\ Cardinality(Notes("c1", "chat.response.chunk")) = 1


----------------------------------------------------------------------------
(* Properties of the router: notifications and single invocation *)

\* C32: a valid message without id whose name resolves to a unary handler
\* invokes that handler, once, for that message; when the handler returns,
\* whatever it returns, the route call is over and nothing was handed to
\* send_response or send_notification
C32_NotificationResultDiscarded ==
    /\ [][\A c \in Conns, m \in ObjectMessages :
            (/\ Receive(c, m)
             /\ Decode(m).at = "ok"
             /\ m.id = None
             /\ m.method \in Registrable
             /\ streaming_handlers[m.method] = None
             /\ handlers[m.method] # None)
            => (/\ calls'[c] = <<handlers[m.method]>>
                /\ req'[c] = m
                /\ pc'[c] = "await_231"
                /\ out'[c] = <<>>)]_vars
    /\ [][\A c \in Conns :
            ((\E result \in PyReturns : UnaryReturns(c, result)) /\ req[c].id = None)
            => (/\ pc'[c] = "returned"
                /\ pend'[c] = NoEnvelope
                /\ out'[c] = <<>>
                /\ calls'[c] = calls[c]
                /\ Len(calls[c]) = 1)]_vars

\* the route call of a notification is over after its unary handler
\* returned: the handler was invoked once and nothing was handed over
C32_Witness ==
    /\ pc["c1"] = "returned"
    /\ req["c1"].form = "object"
    /\ req["c1"].id = None
    /\ Len(calls["c1"]) = 1
    /\ calls["c1"][1] \in UnaryFns
    /\ out["c1"] = <<>>


----------------------------------------------------------------------------
(* Properties of the chat handler: the entry guards *)

\* C33: a chat.send whose message is blank, sent while the SDK is not
\* available, is answered INVALID_PARAMS: the pending reply is an error with
\* that code and the request id, and no session is touched
C33_MessageGuardFirst ==
    [][\A c \in Conns, m \in ChatMessages :
        (/\ Receive(c, m)
         /\ m.method = "chat.send"
         /\ m.params = <<" ">>
         /\ ~sdk_available)
        => (/\ pc'[c] = "send_streaming_except"
            /\ pend'[c].kind = "error"
            /\ pend'[c].code = -32602
            /\ pend'[c].id = m.id
            /\ sessions' = sessions
            /\ heap' = heap
            /\ current_conversation_id' = current_conversation_id)]_vars

\* the error reply to a blank message was sent while the SDK is not available
C33_Witness ==
    /\ ~sdk_available
    /\ req["c1"].method = "chat.send"
    /\ req["c1"].params = <<" ">>
    /\ pc["c1"] = "returned"
    /\ Len(out["c1"]) = 1
    /\ out["c1"][1].env.code = INVALID_PARAMS


\* C34: a route call invokes at most one handler, once: the handler of a
\* call is chosen in its dispatch step and never again, and the await of a
\* unary handler is only reached from the dispatch step, not from an except
\* clause or after a send; no step of a route call changes a registry
C34_AtMostOneInvocation ==
    /\ [](\A c \in Conns : Len(calls[c]) <= 1)
    /\ [][\A c \in Conns :
            (calls'[c] # calls[c] \/ (pc'[c] = "await_231" /\ pc[c] # "await_231"))
            => \E m \in Messages : Receive(c, m)]_vars
    /\ [][(\E c \in Conns : pc'[c] # pc[c])
            => (handlers' = handlers /\ streaming_handlers' = streaming_handlers)]_vars

\* a route call is over after its unary handler returned, the send of the
\* response raised, the send of the error reply raised, and the outer except
\* clause sent its reply: the handler was invoked once
C34_Witness ==
    /\ pc["c1"] = "returned"
    /\ Len(calls["c1"]) = 1
    /\ calls["c1"][1] \in UnaryFns
    /\ Len(out["c1"]) = 3
    /\ out["c1"][1].env.kind = "result"
    /\ out["c1"][3].env.code = INTERNAL_ERROR


----------------------------------------------------------------------------
(* Properties of the chat handler: concurrency *)

\* C35: while an exchange is sending, the is_active flag of its session is true
C35_ActiveWhileSending ==
    \A c \in Conns :
        (InSend(c) /\ Sending(c)) => heap[frame[c].session].is_active


\* C36: the session object an exchange in flight works on is the one the
\* store holds for its conversation id: the sweep has not removed it
C36_InFlightSessionStored ==
    \A c \in Conns :
        (InSend(c) /\ Sending(c))
        => sessions[frame[c].conversation_id] = frame[c].session


\* the route calls whose handle_send passed the entry guards and has not ended
InFlight == {c \in Conns : InSend(c) /\ ~Parked(c) /\ frame[c].session # 0}

\* C37: once an exchange passed the entry guards, the tracked conversation id
\* is the id it took and stays that id; every exchange in flight works under
\* the tracked id, so no two of them differ; and the store holds at most one
\* session, under the tracked id
C37_OneConversation ==
    /\ [](/\ \A c \in InFlight : frame[c].conversation_id = current_conversation_id
          /\ \A c, d \in InFlight : frame[c].conversation_id = frame[d].conversation_id
          /\ Cardinality({cid \in ConvIds : sessions[cid] # 0}) <= 1
          /\ \A cid \in ConvIds : sessions[cid] # 0 => cid = current_conversation_id)
    /\ [][current_conversation_id # None
            => current_conversation_id' = current_conversation_id]_vars

\* two exchanges are in flight at once, on the one session
C37_Witness ==
    /\ InFlight = Conns
    /\ Sending("c1")
    /\ Sending("c2")
    /\ frame["c1"].session = frame["c2"].session
    /\ frame["c1"].conversation_id = current_conversation_id


\* C38: when chat.cancel returns cancelled = true with a conversation id,
\* the store holds a session for that id, and the flag of that session is
\* false after the call
C38_CancelledSessionStored ==
    [][\A c \in Conns, m \in ChatMessages :
        (Receive(c, m) /\ m.method = "chat.cancel" /\ pend'[c].body.flag)
        => (/\ pend'[c].body.conversation_id \in ConvIds
            /\ sessions'[pend'[c].body.conversation_id] # 0
            /\ ~heap'[sessions'[pend'[c].body.conversation_id]].is_active)]_vars


\* C39: the history of every session object alternates between user and
\* assistant turns, starting with a user turn
C39_HistoryAlternates ==
    \A obj \in 1..Len(heap) :
        \A i \in 1..Len(heap[obj].messages) :
            heap[obj].messages[i].role = (IF i % 2 = 1 THEN "user" ELSE "assistant")


\* C40: once the tracked conversation id is set no step clears or changes
\* it, the eviction sweep included; and a chat.send that passes its guards
\* while the tracked id has no session in the store (its session was
\* evicted) stores a new session object under that same id, created at the
\* current clock reading, whose history holds the new user turn only
C40_TrackedIdSurvivesEviction ==
    [][/\ current_conversation_id # None
            => current_conversation_id' = current_conversation_id
       /\ \A c \in Conns, m \in ChatMessages :
            (/\ Receive(c, m)
             /\ m.method = "chat.send"
             /\ frame'[c].session # 0
             /\ current_conversation_id # None
             /\ sessions[current_conversation_id] = 0)
            => (/\ sessions'[current_conversation_id] = Len(heap) + 1
                /\ Len(heap') = Len(heap) + 1
                /\ frame'[c].session = Len(heap) + 1
                /\ frame'[c].conversation_id = current_conversation_id
                /\ heap'[Len(heap) + 1].conversation_id = current_conversation_id
                /\ heap'[Len(heap) + 1].created_at = now
                /\ Len(heap'[Len(heap) + 1].messages) = 1
                /\ heap'[Len(heap) + 1].messages[1].role = "user"
                /\ \A obj \in 1..Len(heap) : heap'[obj] = heap[obj])]_vars

\* a second session object is stored under the tracked id after the first
\* one, created earlier, was evicted
C40_Witness ==
    /\ Len(heap) = 2
    /\ current_conversation_id # None
    /\ sessions[current_conversation_id] = 2
    /\ heap[1].conversation_id = current_conversation_id
    /\ heap[2].conversation_id = current_conversation_id
    /\ heap[2].created_at > heap[1].created_at

====
